---- MODULE Spec2Model ----
(***************************************************************************)
(* Model of but_sample_detector/src/sample_detector_node.cpp: the ROS node *)
(* that, for every image message, asks the tracker for predictions, runs   *)
(* the detector, matches detections to predictions, assigns object IDs and *)
(* publishes the detections.                                               *)
(*                                                                         *)
(* The node's own code (constructor, newDataCallback, getNewObjectID, the  *)
(* spin loop of main) is translated from the source.  MatcherOverlap,      *)
(* SampleDetector and Convertor live in other files of the repository;     *)
(* they are modelled from sections 4.1, 4.2 and 6 of the specification:   *)
(* the detector returns any list of detections, the empty one included.    *)
(***************************************************************************)
EXTENDS Integers, Sequences, FiniteSets, TLC

(* ------------------------------ bounds -------------------------------- *)

\* number of image messages the environment sends
MaxFrames == 2
\* longest list the detector returns / the prediction service answers
MaxDets == 2
MaxPreds == 2
\* calls of getNewObjectID beyond one full turn of the counter (SpecMint)
ExtraCalls == 3

(* ------------------------- program constants -------------------------- *)

\* if(lastObjectID >= 100000) lastObjectID = 0;
maxIdentityValue == 100000
\* matcherOverlap->setMinOverlap(50);
minOverlapPercent == 50
\* nh.subscribe("/cam3d/rgb/image_raw", 10, ...)
QueueSize == 10
\* int lastObjectID: largest value of a 32-bit int
IntMax == 2147483647

(* --------------------------- data model ------------------------------- *)

Rect(x, y, w, h) == [x |-> x, y |-> y, width |-> w, height |-> h]

butObject(id, class, bb) == [m_id |-> id, m_class |-> class, m_bb |-> bb]

\* a 20x20 box, its upper half RB (the overlap is 50% of RA and 100% of RB),
\* a box shifted right (the overlap is 25% of RA, 25% of RB and 12.5% of RC)
\* and a degenerate box of zero area
RA == Rect(10, 10, 20, 20)
RB == Rect(10, 10, 20, 10)
RC == Rect(25, 10, 20, 20)
RZ == Rect(10, 10, 0, 0)

\* m_id of an object as the detector leaves it (not yet identified)
UnsetId == -1

\* what the prediction service may answer with: identified objects
PredPool ==
    { butObject(7, 1, RB), butObject(9, 1, RB), butObject(9, 1, RA),
      butObject(7, 1, RC), butObject(8, 2, RB), butObject(7, 1, RZ) }

\* what the detector may return: objects with a class and a box
DetPool ==
    { butObject(UnsetId, 1, RB), butObject(UnsetId, 1, RZ) }

SeqsUpTo(S, n) == UNION { [1..k -> S] : k \in 0..n }

\* the constructor leaves lastObjectID unset: any int the memory may hold
InitCounterValues == { -3, 0, maxIdentityValue - 1, IntMax }

VARIABLES
    pc,            \* position of the node: "idle" in the spin loop, or a step of newDataCallback
    queue,         \* image messages waiting in the subscription queue (frame numbers)
    arrived,       \* number of image messages sent so far
    cur,           \* frame number of the message the callback is handling (0: none yet)
    now,           \* ros::Time::now().sec
    predictions,   \* member: vector<butObject> predictions
    detections,    \* member: vector<butObject> detections
    matches,       \* local: vector<TMatch> matches
    i,             \* local: loop index of the assignment loop
    lastObjectID,  \* member: the identity counter
    srvOk,         \* whether predictClient.call succeeded in the current frame
    cnt0,          \* history: lastObjectID when the current callback started
    minted,        \* history: values getNewObjectID returned in the current callback
    decodedOk,     \* history: whether the image of frame cur was decoded
    pubs,          \* history: number of publish calls made for frame cur
    calls,         \* SpecMint: number of getNewObjectID calls made
    ret            \* SpecMint: value the last getNewObjectID call returned

vars == << pc, queue, arrived, cur, now, predictions, detections, matches, i,
           lastObjectID, srvOk, cnt0, minted, decodedOk, pubs, calls, ret >>

Frames == 1..MaxFrames

(* ------------------- Geometry / Overlap Evaluator --------------------- *)

Min2(a, b) == IF a < b THEN a ELSE b
Max2(a, b) == IF a > b THEN a ELSE b

area(r) == r.width * r.height

intersectionArea(a, b) ==
    LET w == Min2(a.x + a.width, b.x + b.width) - Max2(a.x, b.x)
        h == Min2(a.y + a.height, b.y + b.height) - Max2(a.y, b.y)
    IN  IF w <= 0 \/ h <= 0 THEN 0 ELSE w * h

\* the overlap ratio min(inter/area(a), inter/area(b)) as a fraction <<num, den>>;
\* 0 for an empty intersection and for degenerate rectangles
overlapRatio(a, b) ==
    LET inter == intersectionArea(a, b)
    IN  IF inter = 0 \/ area(a) = 0 \/ area(b) = 0
        THEN << 0, 1 >>
        ELSE << inter, Max2(area(a), area(b)) >>

\* ratio * 100 >= pct
ratioAtLeast(r, pct) == r[1] * 100 >= pct * r[2]

\* r strictly greater than s
ratioGreater(r, s) == r[1] * s[2] > s[1] * r[2]

(* ------------------------------ Matcher ------------------------------- *)

qualifies(d, p, minOverlap) ==
    /\ p.m_class = d.m_class
    /\ ratioAtLeast(overlapRatio(d.m_bb, p.m_bb), minOverlap)

\* scan of the predictions in index order for detection d; best is the
\* 0-based index of the best qualifying prediction so far, or -1
RECURSIVE scanPredictions(_, _, _, _, _)
scanPredictions(d, preds, minOverlap, j, best) ==
    IF j > Len(preds) THEN best
    ELSE LET p == preds[j]
             better ==
                 /\ qualifies(d, p, minOverlap)
                 /\ \/ best = -1
                    \/ ratioGreater(overlapRatio(d.m_bb, p.m_bb),
                                    overlapRatio(d.m_bb, preds[best + 1].m_bb))
         IN  scanPredictions(d, preds, minOverlap, j + 1,
                             IF better THEN j - 1 ELSE best)

\* one TMatch per detection, in detection order
match(dets, preds, minOverlap) ==
    [ k \in 1..Len(dets) |->
        [ detId |-> k - 1,
          predId |-> scanPredictions(dets[k], preds, minOverlap, 1, -1) ] ]

(* -------------------------- getNewObjectID ---------------------------- *)

\* a step that returns the next value but does not store it
getNewObjectIDNotStored(c) ==
    LET l == IF c >= maxIdentityValue THEN 0 ELSE c
    IN  [ lastObjectID |-> c, result |-> l + 1 ]

\* a step that tests lastObjectID > 100000 instead of >=
getNewObjectIDLateWrap(c) ==
    LET l == IF c > maxIdentityValue THEN 0 ELSE c
    IN  [ lastObjectID |-> l + 1, result |-> l + 1 ]

\* a step that returns from the reset without the increment
getNewObjectIDWrapsToZero(c) ==
    IF c >= maxIdentityValue
    THEN [ lastObjectID |-> 0, result |-> 0 ]
    ELSE [ lastObjectID |-> c + 1, result |-> c + 1 ]

\* the code's step: the new value of lastObjectID and the value returned
getNewObjectID(c) ==
    LET l == IF c >= maxIdentityValue THEN 0 ELSE c
    IN  [ lastObjectID |-> l + 1, result |-> l + 1 ]

(* ------------------------------- Init --------------------------------- *)

Init ==
    /\ pc = "idle"
    /\ queue = << >>
    /\ arrived = 0
    /\ cur = 0
    /\ now \in {0, 1}
    /\ predictions = << >>
    /\ detections = << >>
    /\ matches = << >>
    /\ i = 0
    /\ lastObjectID \in InitCounterValues
    /\ srvOk = FALSE
    /\ cnt0 = lastObjectID
    /\ minted = << >>
    /\ decodedOk = FALSE
    /\ pubs = 0
    /\ calls = 0
    /\ ret = 0

(* ------------------------- the environment ---------------------------- *)

\* an image message arrives on /cam3d/rgb/image_raw; a full queue drops its oldest
FrameArrives ==
    /\ arrived < MaxFrames
    /\ arrived' = arrived + 1
    /\ queue' = IF Len(queue) >= QueueSize
                THEN Append(Tail(queue), arrived + 1)
                ELSE Append(queue, arrived + 1)
    /\ UNCHANGED << pc, cur, now, predictions, detections, matches, i,
                    lastObjectID, srvOk, cnt0, minted, decodedOk, pubs, calls, ret >>

\* the first message on /clock is received: now() no longer returns time 0
ClockStarts ==
    /\ now = 0
    /\ now' = 1
    /\ UNCHANGED << pc, queue, arrived, cur, predictions, detections, matches, i,
                    lastObjectID, srvOk, cnt0, minted, decodedOk, pubs, calls, ret >>

(* -------------------------- newDataCallback --------------------------- *)

\* a catch block without its return: the callback goes on with an empty image
DecodeFailsNoReturn ==
    /\ pc = "idle"
    /\ queue # << >>
    /\ cur' = Head(queue)
    /\ queue' = Tail(queue)
    /\ decodedOk' = FALSE
    /\ pubs' = 0
    /\ pc' = "time"
    /\ UNCHANGED << arrived, now, predictions, detections, matches, i,
                    lastObjectID, srvOk, cnt0, minted, calls, ret >>

\* spinOnce calls the callback; cv_bridge::toCvCopy throws: ROS_ERROR, return
DecodeFails ==
    /\ pc = "idle"
    /\ queue # << >>
    /\ cur' = Head(queue)
    /\ queue' = Tail(queue)
    /\ decodedOk' = FALSE
    /\ pubs' = 0
    /\ UNCHANGED << pc, arrived, now, predictions, detections, matches, i,
                    lastObjectID, srvOk, cnt0, minted, calls, ret >>

\* spinOnce calls the callback; the image is decoded
DecodeOk ==
    /\ pc = "idle"
    /\ queue # << >>
    /\ cur' = Head(queue)
    /\ queue' = Tail(queue)
    /\ decodedOk' = TRUE
    /\ pubs' = 0
    /\ pc' = "time"
    /\ srvOk' = FALSE
    /\ cnt0' = lastObjectID
    /\ minted' = << >>
    /\ UNCHANGED << arrived, now, predictions, detections, matches, i,
                    lastObjectID, calls, ret >>

\* do { reqTime = ros::Time::now(); } while(reqTime.sec == 0);
ReadTime ==
    /\ pc = "time"
    /\ now # 0
    /\ pc' = "predict"
    /\ UNCHANGED << queue, arrived, cur, now, predictions, detections, matches, i,
                    lastObjectID, srvOk, cnt0, minted, decodedOk, pubs, calls, ret >>

\* predictClient.call(predictSrv) returns true: predictions are replaced
PredictOk ==
    /\ pc = "predict"
    /\ \E ps \in SeqsUpTo(PredPool, MaxPreds) : predictions' = ps
    /\ srvOk' = TRUE
    /\ pc' = "detect"
    /\ UNCHANGED << queue, arrived, cur, now, detections, matches, i,
                    lastObjectID, cnt0, minted, decodedOk, pubs, calls, ret >>

\* predictClient.call(predictSrv) returns false: ROS_ERROR, predictions untouched
PredictFails ==
    /\ pc = "predict"
    /\ srvOk' = FALSE
    /\ pc' = "detect"
    /\ UNCHANGED << queue, arrived, cur, now, predictions, detections, matches, i,
                    lastObjectID, cnt0, minted, decodedOk, pubs, calls, ret >>

\* sampleDetector->prediction(predictions, 0); sampleDetector->detect(image, Mat(), detections, 0);
Detect ==
    /\ pc = "detect"
    /\ \E ds \in SeqsUpTo(DetPool, MaxDets) : detections' = ds
    /\ pc' = "match"
    /\ UNCHANGED << queue, arrived, cur, now, predictions, matches, i,
                    lastObjectID, srvOk, cnt0, minted, decodedOk, pubs, calls, ret >>

\* matcherOverlap->setMinOverlap(50); matcherOverlap->match(detections, predictions, matches);
Match ==
    /\ pc = "match"
    /\ matches' = match(detections, predictions, minOverlapPercent)
    /\ i' = 0
    /\ pc' = "assign"
    /\ UNCHANGED << queue, arrived, cur, now, predictions, detections,
                    lastObjectID, srvOk, cnt0, minted, decodedOk, pubs, calls, ret >>

\* a loop body that calls getNewObjectID() before looking at the match
AssignInheritAlsoMints ==
    /\ pc = "assign"
    /\ i < Len(matches)
    /\ matches[i + 1].predId # -1
    /\ detections' = [ detections EXCEPT
                         ![i + 1].m_id = predictions[matches[i + 1].predId + 1].m_id ]
    /\ lastObjectID' = (IF lastObjectID >= maxIdentityValue THEN 0 ELSE lastObjectID) + 1
    /\ i' = i + 1
    /\ UNCHANGED << pc, queue, arrived, cur, now, predictions, matches,
                    srvOk, cnt0, minted, decodedOk, pubs, calls, ret >>

\* a loop body that copies m_class of the prediction instead of m_id
AssignInheritCopiesClass ==
    /\ pc = "assign"
    /\ i < Len(matches)
    /\ matches[i + 1].predId # -1
    /\ detections' = [ detections EXCEPT
                         ![i + 1].m_id = predictions[matches[i + 1].predId + 1].m_class ]
    /\ i' = i + 1
    /\ UNCHANGED << pc, queue, arrived, cur, now, predictions, matches,
                    lastObjectID, srvOk, cnt0, minted, decodedOk, pubs, calls, ret >>

\* a loop body that copies the whole prediction over the detection
AssignInheritCopiesObject ==
    /\ pc = "assign"
    /\ i < Len(matches)
    /\ matches[i + 1].predId # -1
    /\ detections' = [ detections EXCEPT ![i + 1] = predictions[matches[i + 1].predId + 1] ]
    /\ i' = i + 1
    /\ UNCHANGED << pc, queue, arrived, cur, now, predictions, matches,
                    lastObjectID, srvOk, cnt0, minted, decodedOk, pubs, calls, ret >>

\* loop body, matches[i].predId != -1: detections[i].m_id = predictions[matches[i].predId].m_id
AssignInherit ==
    /\ pc = "assign"
    /\ i < Len(matches)
    /\ matches[i + 1].predId # -1
    /\ detections' = [ detections EXCEPT
                         ![i + 1].m_id = predictions[matches[i + 1].predId + 1].m_id ]
    /\ i' = i + 1
    /\ UNCHANGED << pc, queue, arrived, cur, now, predictions, matches,
                    lastObjectID, srvOk, cnt0, minted, decodedOk, pubs, calls, ret >>

\* loop body, matches[i].predId == -1: detections[i].m_id = getNewObjectID()
AssignMint ==
    /\ pc = "assign"
    /\ i < Len(matches)
    /\ matches[i + 1].predId = -1
    /\ LET g == getNewObjectID(lastObjectID)
       IN  /\ lastObjectID' = g.lastObjectID
           /\ detections' = [ detections EXCEPT ![i + 1].m_id = g.result ]
           /\ minted' = Append(minted, g.result)
    /\ i' = i + 1
    /\ UNCHANGED << pc, queue, arrived, cur, now, predictions, matches,
                    srvOk, cnt0, decodedOk, pubs, calls, ret >>

\* a loop that stops one element early (i < matches.size() - 1, as signed values)
AssignDoneOneEarly ==
    /\ pc = "assign"
    /\ ~ (i < Len(matches) - 1)
    /\ pc' = "publish"
    /\ UNCHANGED << queue, arrived, cur, now, predictions, detections, matches, i,
                    lastObjectID, srvOk, cnt0, minted, decodedOk, pubs, calls, ret >>

\* loop exit: i < matches.size() is false
AssignDone ==
    /\ pc = "assign"
    /\ ~ (i < Len(matches))
    /\ pc' = "publish"
    /\ UNCHANGED << queue, arrived, cur, now, predictions, detections, matches, i,
                    lastObjectID, srvOk, cnt0, minted, decodedOk, pubs, calls, ret >>

\* detArray.detections = butObjectsToDetections(detections, header); detectionsPub.publish(detArray)
Publish ==
    /\ pc = "publish"
    /\ pubs' = pubs + 1
    /\ pc' = "show"
    /\ UNCHANGED << queue, arrived, cur, now, predictions, detections, matches, i,
                    lastObjectID, srvOk, cnt0, minted, decodedOk, calls, ret >>

\* the callback returns: its locals are gone
Return ==
    /\ pc' = "idle"
    /\ matches' = << >>
    /\ i' = 0
    /\ UNCHANGED << queue, arrived, cur, now, predictions, detections,
                    lastObjectID, srvOk, cnt0, minted, decodedOk, pubs, calls, ret >>

\* cv::Rect bb = detections[0].m_bb; rectangle(...); imshow(...); return
Show ==
    /\ pc = "show"
    /\ detections # << >>
    /\ Return

\* detections[0] of an empty vector is read out of bounds: the read returns garbage ...
ShowOutOfBoundsGoesOn ==
    /\ pc = "show"
    /\ detections = << >>
    /\ Return

\* ... or the process dies on it
ShowOutOfBoundsCrashes ==
    /\ pc = "show"
    /\ detections = << >>
    /\ pc' = "crashed"
    /\ UNCHANGED << queue, arrived, cur, now, predictions, detections, matches, i,
                    lastObjectID, srvOk, cnt0, minted, decodedOk, pubs, calls, ret >>

Next ==
    \/ FrameArrives
    \/ ClockStarts
    \/ DecodeFails
    \/ DecodeOk
    \/ ReadTime
    \/ PredictOk
    \/ PredictFails
    \/ Detect
    \/ Match
    \/ AssignInherit
    \/ AssignMint
    \/ AssignDone
    \/ Publish
    \/ Show
    \/ ShowOutOfBoundsGoesOn
    \/ ShowOutOfBoundsCrashes

Spec == Init /\ [][Next]_vars

\* spinOnce calls a waiting callback
Callback == DecodeFails \/ DecodeOk

\* a statement of the running callback
CallbackStep ==
    \/ ReadTime
    \/ PredictOk
    \/ PredictFails
    \/ Detect
    \/ Match
    \/ AssignInherit
    \/ AssignMint
    \/ AssignDone
    \/ Publish
    \/ Show
    \/ ShowOutOfBoundsGoesOn
    \/ ShowOutOfBoundsCrashes

\* main's loop keeps calling spinOnce while ros::ok(), a running callback keeps
\* executing (the service call is blocking but returns), and the clock starts
FairSpec ==
    /\ Spec
    /\ WF_vars(Callback)
    /\ WF_vars(CallbackStep)
    /\ WF_vars(ClockStarts)

(* --------------- getNewObjectID called over and over ------------------ *)

MaxCalls == maxIdentityValue + ExtraCalls

\* the counter holds 0 and nothing else has happened yet
InitMint ==
    /\ Init
    /\ lastObjectID = 0
    /\ now = 1

\* one call of getNewObjectID
MintCall ==
    /\ calls < MaxCalls
    /\ LET g == getNewObjectID(lastObjectID)
       IN  /\ lastObjectID' = g.lastObjectID
           /\ ret' = g.result
    /\ calls' = calls + 1
    /\ UNCHANGED << pc, queue, arrived, cur, now, predictions, detections, matches, i,
                    srvOk, cnt0, minted, decodedOk, pubs >>

NextMint == MintCall

SpecMint == InitMint /\ [][NextMint]_vars

(* ----------------- many frame cycles, one after another --------------- *)

\* largest identity of an object the tracker keeps predicting in the long run
MaxTrackedId == 1
\* longest list the detector returns in the long run
LongRunDets == 1

\* the identities carried by a list of objects
Ids(objs) == { objs[k].m_id : k \in 1..Len(objs) }

\* the assignment loop from element k on: the detections, the counter and the
\* identities minted when the loop is done
RECURSIVE assignIdentities(_, _, _, _, _, _)
assignIdentities(dets, ms, preds, c, mt, k) ==
    IF ~ (k - 1 < Len(ms))
    THEN [ detections |-> dets, lastObjectID |-> c, minted |-> mt ]
    ELSE IF ms[k].predId # -1
         THEN assignIdentities([ dets EXCEPT ![k].m_id = preds[ms[k].predId + 1].m_id ],
                               ms, preds, c, mt, k + 1)
         ELSE LET g == getNewObjectID(c)
              IN  assignIdentities([ dets EXCEPT ![k].m_id = g.result ],
                                   ms, preds, g.lastObjectID, Append(mt, g.result), k + 1)

\* what the tracker answers in the long run: nothing, or one object of class 1 at
\* RB under an identity it predicted before or the node published last
LongRunPredictions ==
    { << >> } \cup
    { << butObject(id, 1, RB) >> :
        id \in (Ids(predictions) \cup Ids(detections)) \cap (1..MaxTrackedId) }

\* the counter holds 0 and nothing else has happened yet
InitLongRun ==
    /\ Init
    /\ lastObjectID = 0
    /\ now = 1

\* one whole call of newDataCallback: the image decodes, the service call succeeds,
\* the detector returns a non-empty list, the detections are matched, identified
\* and published, the callback returns
FrameCycle ==
    /\ pc = "idle"
    /\ calls < MaxCalls
    /\ \E ps \in LongRunPredictions :
       \E ds \in SeqsUpTo(DetPool, LongRunDets) \ { << >> } :
          LET ms == match(ds, ps, minOverlapPercent)
              a == assignIdentities(ds, ms, ps, lastObjectID, << >>, 1)
          IN  /\ predictions' = ps
              /\ detections' = a.detections
              /\ lastObjectID' = a.lastObjectID
              /\ minted' = a.minted
              /\ calls' = calls + Len(a.minted)
              /\ ret' = IF a.minted = << >> THEN ret ELSE a.minted[Len(a.minted)]
    /\ cnt0' = lastObjectID
    /\ srvOk' = TRUE
    /\ decodedOk' = TRUE
    /\ pubs' = 1
    /\ pc' = "idle"
    /\ matches' = << >>
    /\ i' = 0
    /\ UNCHANGED << queue, arrived, cur, now >>

NextLongRun == FrameCycle

SpecLongRun == InitLongRun /\ [][NextLongRun]_vars

(* ------------------------------ claims -------------------------------- *)

\* the detections the assignment loop has already dealt with, as indices
Assigned == IF pc \in {"assign", "publish", "show"} THEN 1..i ELSE {}

Unmatched(k) == matches[k].predId = -1

Range(f) == { f[k] : k \in DOMAIN f }

\* C1: in a frame whose prediction service call failed, no detection inherits an
\* identity from a prediction and every detection gets a freshly minted identity,
\* whatever predictions earlier frames obtained.
C1_FailedCallMeansNoPredictions ==
    (decodedOk /\ ~ srvOk) =>
        \A k \in Assigned :
            /\ Unmatched(k)
            /\ detections[k].m_id \in Range(minted)

C3_CounterWraps ==
    /\ [](calls > 0 =>
            /\ ret = ((calls - 1) % maxIdentityValue) + 1
            /\ lastObjectID = ret)
    /\ [][calls' = calls + 1 =>
            ret' = IF lastObjectID = maxIdentityValue THEN 1 ELSE lastObjectID + 1]_vars

\* the call after maxIdentityValue calls has returned 1
C3_Witness ==
    /\ calls = maxIdentityValue + 1
    /\ ret = 1

\* C4: every detection handed to the publisher had its identity set in this frame
\* cycle, to the identity of its matched prediction or to a freshly minted one, the
\* identity is non-negative (predictions carry non-negative identities), and the
\* match list has one entry per detection.
C4_PublishedIdentitiesValid ==
    pc = "show" =>
        /\ Len(matches) = Len(detections)
        /\ \A k \in 1..Len(detections) :
              /\ k \in Assigned
              /\ IF Unmatched(k)
                 THEN detections[k].m_id \in Range(minted)
                 ELSE detections[k].m_id = predictions[matches[k].predId + 1].m_id
              /\ detections[k].m_id >= 0

\* C5: a frame whose image cannot be decoded is skipped: no step of the callback
\* runs for it, nothing is published, the counter and the stored predictions and
\* detections stay as they were, and the next frame in the queue can be taken.
C5_DecodeFailureSkipsFrame ==
    /\ [](~ decodedOk =>
            /\ pc = "idle"
            /\ pubs = 0
            /\ (queue # << >> => ENABLED DecodeOk))
    /\ [][(cur' # cur /\ ~ decodedOk') =>
            /\ pc' = pc
            /\ UNCHANGED << predictions, detections, matches, i, lastObjectID,
                            srvOk, cnt0, minted, now, arrived >>]_vars

\* the first frame was skipped and the second one waits in the queue
C5_Witness ==
    /\ cur = 1
    /\ ~ decodedOk
    /\ queue = << 2 >>

\* one step of the counter with wraparound: the next value, and 1 once the maximum
\* is reached
SpecStep(c) == IF c >= maxIdentityValue THEN 1 ELSE c + 1

RECURSIVE SpecSteps(_, _)
SpecSteps(c, n) == IF n = 0 THEN c ELSE SpecStep(SpecSteps(c, n - 1))

\* number of unmatched detections among the first k
UnmatchedUpTo(k) == Cardinality({ m \in 1..k : Unmatched(m) })

\* C6: in a frame cycle the counter changes only in the assignment of an unmatched
\* detection, by one step each; a matched detection leaves it alone. After k
\* unmatched detections it is k steps (with wraparound) past its value at the start
\* of the frame and the unmatched detections carry the successive values in
\* detection order.
C6_CounterStepsOncePerUnmatched ==
    /\ [](/\ lastObjectID = SpecSteps(cnt0, Len(minted))
          /\ \A k \in Assigned :
                Unmatched(k) => detections[k].m_id = SpecSteps(cnt0, UnmatchedUpTo(k))
          /\ pc \in {"assign", "publish", "show"} => Len(minted) = UnmatchedUpTo(i))
    /\ [][lastObjectID' # lastObjectID =>
            /\ pc = "assign"
            /\ i < Len(matches)
            /\ Unmatched(i + 1)
            /\ i' = i + 1
            /\ lastObjectID' = SpecStep(lastObjectID)]_vars

\* counter 0, no predictions, two detections: identities 1 and 2 in detection order
C6_Witness ==
    /\ pc = "show"
    /\ cnt0 = 0
    /\ predictions = << >>
    /\ Len(detections) = 2
    /\ detections[1].m_id = 1
    /\ detections[2].m_id = 2
    /\ lastObjectID = 2

\* the predictions supplied for the current frame
CurrentPredictions == IF srvOk THEN predictions ELSE << >>

\* the overlap is at least pct percent of both boxes
OverlapOfBoth(a, b, pct) ==
    /\ intersectionArea(a, b) > 0
    /\ intersectionArea(a, b) * 100 >= pct * area(a)
    /\ intersectionArea(a, b) * 100 >= pct * area(b)

\* C7: a detection inherits the identity of a prediction only if that prediction was
\* supplied for the current frame, has the detection's class and overlaps it by at
\* least minOverlapPercent percent of both boxes; a detection for which no such
\* prediction exists gets a freshly minted identity.
C7_InheritsOnlyFromCurrentQualifying ==
    \A k \in Assigned :
        /\ ~ Unmatched(k) =>
              /\ srvOk
              /\ predictions[matches[k].predId + 1].m_class = detections[k].m_class
              /\ OverlapOfBoth(detections[k].m_bb,
                               predictions[matches[k].predId + 1].m_bb, minOverlapPercent)
              /\ detections[k].m_id = predictions[matches[k].predId + 1].m_id
        /\ (\A j \in 1..Len(CurrentPredictions) :
               ~ /\ CurrentPredictions[j].m_class = detections[k].m_class
                 /\ OverlapOfBoth(detections[k].m_bb, CurrentPredictions[j].m_bb,
                                  minOverlapPercent)) =>
              /\ Unmatched(k)
              /\ detections[k].m_id \in Range(minted)

\* the predictions with the class and exactly the box of detection k, as indices
SameBoxPredictions(k) ==
    { j \in 1..Len(predictions) :
        /\ predictions[j].m_class = detections[k].m_class
        /\ predictions[j].m_bb = detections[k].m_bb }

SetMin(S) == CHOOSE m \in S : \A n \in S : m <= n

C9_EveryFrameCycleCompletes ==
    /\ \A f \in Frames : [](cur = f /\ decodedOk => <>(cur = f /\ pubs = 1))
    /\ [](pubs <= 1)
    /\ [](pc # "idle" => <>(pc = "idle"))
    /\ \A f \in Frames : [](arrived >= f => <>(cur >= f))

\* the steps of a frame cycle in their order
StepOrder ==
    { << "idle", "time" >>, << "time", "predict" >>, << "predict", "detect" >>,
      << "detect", "match" >>, << "match", "assign" >>, << "assign", "publish" >>,
      << "publish", "show" >>, << "show", "idle" >>, << "show", "crashed" >> }

\* C10: the steps of a frame occur in the order fetch predictions, detect, match,
\* assign, publish; the publish happens only when every detection of the frame has
\* been through the assignment loop; a frame is taken only when the previous one is
\* finished, in submission order; identities are minted only in the assignment step
\* of the frame being handled.
C10_FrameCyclesAreSequential ==
    [][/\ pc' # pc => << pc, pc' >> \in StepOrder
       /\ cur' # cur => (pc = "idle" /\ cur' > cur /\ cur' = Head(queue))
       /\ pubs' > pubs =>
             /\ pc = "publish"
             /\ cur' = cur
             /\ i = Len(matches)
             /\ Len(matches) = Len(detections)
       /\ lastObjectID' # lastObjectID => (pc = "assign" /\ cur' = cur)
       /\ (pc # "idle" /\ pc' # "idle") => cur' = cur]_vars

\* the second frame has been through all its steps and is published, with two
\* detections of which at least one got a minted identity
C10_Witness ==
    /\ cur = 2
    /\ pc = "show"
    /\ pubs = 1
    /\ Len(detections) = 2
    /\ Len(minted) > 0

\* C11: the counter is initialized to zero at startup: before any frame is handled
\* it equals 0, so the first identity the process mints is 1.
C11_CounterStartsAtZero ==
    /\ cur = 0 => lastObjectID = 0
    /\ (cur <= 1 /\ minted # << >>) => minted[1] = 1

\* C12: in every reachable state the counter lies in [0, maxIdentityValue] and
\* every identity getNewObjectID returned lies in [1, maxIdentityValue].
C12_CounterAndIdentitiesInRange ==
    /\ lastObjectID \in 0..maxIdentityValue
    /\ \A k \in 1..Len(minted) : minted[k] \in 1..maxIdentityValue
    /\ calls > 0 => ret \in 1..maxIdentityValue

\* the step as specified: increment the counter and, if the value after the
\* increment exceeds the maximum, reset it to zero and then increment
specifiedStep(c) ==
    LET n == c + 1
        m == IF n > maxIdentityValue THEN 0 + 1 ELSE n
    IN  [ lastObjectID |-> m, result |-> m ]

\* C13: for every counter value in [0, maxIdentityValue] the code's step (reset a
\* counter that is >= max, then pre-increment) and the specified step give the same
\* identity and the same new counter, so from counter 0 every call returns what the
\* specified step returns.
C13_CodeStepIsSpecifiedStep ==
    /\ [](/\ lastObjectID \in 0..maxIdentityValue
          /\ getNewObjectID(lastObjectID) = specifiedStep(lastObjectID))
    /\ [][calls' = calls + 1 =>
            /\ lastObjectID' = specifiedStep(lastObjectID).lastObjectID
            /\ ret' = specifiedStep(lastObjectID).result]_vars

\* the counter has been through the maximum and two calls further
C13_Witness ==
    /\ calls = maxIdentityValue + 2
    /\ ret = 2
    /\ lastObjectID = 2

\* the prediction matched to detection k
MatchedPrediction(k) == predictions[matches[k].predId + 1]

C16_AccessesInBounds ==
    /\ (pc = "assign" /\ i < Len(matches)) =>
          /\ i < Len(detections)
          /\ matches[i + 1].predId # -1 =>
                (0 <= matches[i + 1].predId /\ matches[i + 1].predId < Len(predictions))
    /\ pc = "show" => Len(detections) > 0

\* C15: the identity minted for an unmatched detection is new: after any sequence
\* of frames, also one long enough for the counter to wrap, it differs from the
\* identity of every prediction supplied for the current frame, the predictions
\* carrying only identities this node published earlier.
C15_MintedIdentityIsNew ==
    srvOk => \A k \in 1..Len(minted) : minted[k] \notin Ids(predictions)

\* the loop as one function does what the loop does step by step
AssignIdentitiesAgrees ==
    pc = "publish" =>
        LET a == assignIdentities(detections, matches, predictions, cnt0, << >>, 1)
        IN  /\ a.detections = detections
            /\ a.lastObjectID = lastObjectID
            /\ a.minted = minted

====
